---- MODULE Spec2Model ----
(***************************************************************************)
(* The ISL video sequence player (src/src/components/ISLVideoPlayer.tsx):  *)
(* the React state of the component, the <video> element behind videoRef,  *)
(* the pending play() promises and setTimeout continuations, and the       *)
(* class-static VideoPreloader.                                            *)
(*                                                                         *)
(* One action is one handler run to completion: the batched state updates  *)
(* of the handler, the render that commits them (which mounts or unmounts  *)
(* the <video> element), the useEffect that the render triggers, and the   *)
(* render that follows the effect's own state updates.                     *)
(***************************************************************************)
EXTENDS Integers, Sequences, FiniteSets, TLC

\* ------------------------------------------------------------------ bounds
MaxLen == 2        \* longest gloss list handed to playSequence
MaxTimers == 1     \* setTimeout continuations pending at the same time
MaxPending == 1    \* superseded play() promises still unsettled, per gloss
MaxText == 3       \* longest generated raw text, in characters
MaxChunks == 2     \* most chunks of a generated text
MaxTokens == 5     \* longest generated token list
MaxWords == 3      \* longest generated word list

\* ------------------------------------------------------------ input glosses
\* "hello" has a clip and is not upper case, "GOOD" has a clip, "xyz" has none
Glosses == {"hello", "GOOD", "xyz"}

\* ------------------------------------------------------- JavaScript strings
\* a string is a sequence of characters; a character is a string of length 1
Lower == "abcdefghijklmnopqrstuvwxyz"
Upper == "ABCDEFGHIJKLMNOPQRSTUVWXYZ"
Digits == "0123456789"

CharAt(s, i) == SubSeq(s, i, i)
CharsOf(s) == {CharAt(s, i) : i \in 1..Len(s)}
Rest(s) == SubSeq(s, 2, Len(s))

UpperOf == [c \in CharsOf(Lower) |-> CharAt(Upper, CHOOSE i \in 1..Len(Lower) : CharAt(Lower, i) = c)]
LowerOf == [c \in CharsOf(Upper) |-> CharAt(Lower, CHOOSE i \in 1..Len(Upper) : CharAt(Upper, i) = c)]

\* String.prototype.toUpperCase / toLowerCase
RECURSIVE UpperCased(_)
UpperCased(s) ==
  IF s = "" THEN ""
  ELSE LET c == CharAt(s, 1)
       IN  (IF c \in DOMAIN UpperOf THEN UpperOf[c] ELSE c) \o UpperCased(Rest(s))

\* the glosses of the player, upper-cased once
UpperCaseOf == [g \in Glosses \cup {UpperCased(g) : g \in Glosses} |-> UpperCased(g)]

toUpperCase(s) == IF s \in DOMAIN UpperCaseOf THEN UpperCaseOf[s] ELSE UpperCased(s)

RECURSIVE toLowerCase(_)
toLowerCase(s) ==
  IF s = "" THEN ""
  ELSE LET c == CharAt(s, 1)
       IN  (IF c \in DOMAIN LowerOf THEN LowerOf[c] ELSE c) \o toLowerCase(Rest(s))

\* the regular-expression classes \s and \w
WhiteSpace == {" ", "\t", "\n"}
WordChars == CharsOf(Lower) \cup CharsOf(Upper) \cup CharsOf(Digits) \cup {"_"}

\* String.prototype.trim
RECURSIVE trimStart(_)
trimStart(s) ==
  IF s # "" /\ CharAt(s, 1) \in WhiteSpace THEN trimStart(Rest(s)) ELSE s

RECURSIVE trimEnd(_)
trimEnd(s) ==
  IF s # "" /\ CharAt(s, Len(s)) \in WhiteSpace THEN trimEnd(SubSeq(s, 1, Len(s) - 1)) ELSE s

trim(s) == trimEnd(trimStart(s))

\* s.replace(/[...]/g, ''): the characters of s that are in `kept`
RECURSIVE KeepChars(_, _)
KeepChars(s, kept) ==
  IF s = "" THEN ""
  ELSE (IF CharAt(s, 1) \in kept THEN CharAt(s, 1) ELSE "") \o KeepChars(Rest(s), kept)

\* s.split(/\s+/): the pieces between maximal runs of white space (an empty
\* piece before a leading and after a trailing run), `cur` being read so far
RECURSIVE SplitSpaces(_, _)
SplitSpaces(s, cur) ==
  IF s = "" THEN <<cur>>
  ELSE IF CharAt(s, 1) \in WhiteSpace THEN <<cur>> \o SplitSpaces(trimStart(s), "")
  ELSE SplitSpaces(Rest(s), cur \o CharAt(s, 1))

\* s.split(sep) for a separator of one character
RECURSIVE SplitOn(_, _, _)
SplitOn(s, sep, cur) ==
  IF s = "" THEN <<cur>>
  ELSE IF CharAt(s, 1) = sep THEN <<cur>> \o SplitOn(Rest(s), sep, "")
  ELSE SplitOn(Rest(s), sep, cur \o CharAt(s, 1))

\* words.join(' ')
RECURSIVE Join(_)
Join(words) ==
  IF words = <<>> THEN ""
  ELSE IF Len(words) = 1 THEN words[1]
  ELSE words[1] \o " " \o Join(Tail(words))

\* s.replace(new RegExp(merged, 'gi'), by): every occurrence from the left,
\* compared without regard to case, none overlapping the one before it
RECURSIVE ReplaceAll(_, _, _)
ReplaceAll(s, merged, by) ==
  IF Len(s) < Len(merged) THEN s
  ELSE IF toUpperCase(SubSeq(s, 1, Len(merged))) = toUpperCase(merged)
       THEN by \o ReplaceAll(SubSeq(s, Len(merged) + 1, Len(s)), merged, by)
       ELSE CharAt(s, 1) \o ReplaceAll(Rest(s), merged, by)

RECURSIVE SeqsUpTo(_, _)
SeqsUpTo(S, n) ==
  IF n = 0 THEN {<<>>}
  ELSE LET shorter == SeqsUpTo(S, n - 1)
       IN  shorter \cup {Append(q, x) : q \in {r \in shorter : Len(r) = n - 1}, x \in S}

GlossLists == SeqsUpTo(Glosses, MaxLen)

\* ----------------------------------------------------------------- datasets
DEFAULT_ISL_DATASET ==
  [name    |-> "Public ISL Dataset",
   baseUrl |-> "https://assets.mixkit.co/videos/preview/",
   videos  |-> [g \in {"HELLO", "GOOD"} |->
                  IF g = "HELLO" THEN "mixkit-hello-sign-language-gesture-44806-large.mp4"
                  ELSE "mixkit-good-sign-language-gesture-44810-large.mp4"]]

KAGGLE_ISL_DATASET ==
  [name    |-> "Kaggle ISL Dataset",
   baseUrl |-> "https://kaggle-dataset-url.com/",
   videos  |-> [g \in {} |-> ""]]

Datasets == {DEFAULT_ISL_DATASET, KAGGLE_ISL_DATASET}

\* null of getVideoUrl, and the src of a <video> element that was given none
NoUrl == <<>>

\* every locator getVideoUrl can return
Urls == {<<d.baseUrl, d.videos[g]>> : d \in {DEFAULT_ISL_DATASET}, g \in DOMAIN DEFAULT_ISL_DATASET.videos}
NoFetches == [url \in Urls |-> 0]

\* the preloadVideos prop (its default; SignLanguageFeature passes true)
preloadVideos == TRUE

VARIABLES
  currentVideoIndex,   \* useState(0)
  isSequencePlaying,   \* useState(false)
  playbackQueue,       \* useState<string[]>([])
  currentWord,         \* useState('')
  availableVideos,     \* useState<string[]>([])
  missingWords,        \* useState<string[]>([])
  videoError,          \* useState(''): "" or the gloss named in the message
  dataset,             \* the dataset prop
  video,               \* the <video> element of videoRef: [gloss, src, status, origin]
  abandonedPlays,      \* unsettled play() promises of superseded loads: gloss -> count
  timers,              \* pending setTimeout continuations: <<kind, stale>> -> count
  emitted,             \* callbacks and toasts issued by the last step, in order
  lastStep,            \* (history) the handler or event that ran last
  preloadedVideos,     \* VideoPreloader.preloadedVideos (its keys)
  preloadQueue,        \* VideoPreloader.preloadQueue
  preloadWaiters,      \* locators some preloadVideo call is polling for
  preloadFetches,      \* locator -> <video> elements created by preloadVideo, still loading
  queueDataset,        \* (history) the dataset prop when the playback queue was built
  call,                \* text utilities: the function being applied, "" when none
  arg,                 \* its argument
  result,              \* its return value, once it has returned
  transcript,          \* useSpeechRecognition: useState('')
  isListening,         \* useSpeechRecognition: useState(false)
  recognition,         \* the SpeechRecognition object: "none", "starting", "active", "stopping"
  debounce,            \* the pending timeout of debounceTimeoutRef: <<>> or <<[text, overtaken]>>
  rawInterim,          \* (history) the transcript holds raw text of an interim result
  updateTimer,         \* SignLanguageFeature: the pending 1000 ms timeout: <<>> or <<[text, interim]>>
  featureGlosses,      \* SignLanguageFeature: currentGlosses, useState<string[]>([])
  isVideoPlaying,      \* SignLanguageFeature: useState(false)
  piped                \* (history) the last call of processRecognizedText: <<>> or
                       \* <<[from, interim]>>, whether its argument held raw interim text

playerVars == <<currentVideoIndex, isSequencePlaying, playbackQueue, currentWord,
                availableVideos, missingWords, videoError, video, abandonedPlays,
                timers, emitted, lastStep, queueDataset>>
preloaderVars == <<preloadedVideos, preloadQueue, preloadWaiters, preloadFetches>>
textVars == <<call, arg, result>>
hookVars == <<transcript, isListening, recognition, debounce, rawInterim>>
featureVars == <<updateTimer, featureGlosses, isVideoPlaying, piped>>
speechVars == <<hookVars, featureVars>>
vars == <<playerVars, dataset, preloaderVars, textVars, speechVars>>

\* -------------------------------------------------------- the video element
\* status: "empty" (no src), "pending" (play() called, promise unsettled),
\*         "playing", "paused", "ended"
\* origin (history): "current"    the clip was taken from the present queue,
\*                   "superseded" a later playSequence replaced that queue,
\*                   "reset"      reset() cleared that queue
NoVideo == [gloss |-> "", src |-> NoUrl, status |-> "empty", origin |-> "current"]

TimerKinds == {"clipEnd", "backoff"}     \* the 500 ms and the 1000 ms timeout
TimerIds == TimerKinds \X BOOLEAN        \* <<kind, stale>>
NoTimers == [t \in TimerIds |-> 0]
QueueGlosses == {toUpperCase(g) : g \in Glosses}
NoPlays == [g \in QueueGlosses |-> 0]

RECURSIVE SumOver(_, _)
SumOver(f, S) ==
  IF S = {} THEN 0
  ELSE LET x == CHOOSE y \in S : TRUE IN f[x] + SumOver(f, S \ {x})

TimerCount(tm) == SumOver(tm, TimerIds)

\* the component state a handler reads and writes, as one record
State ==
  [idx |-> currentVideoIndex, playing |-> isSequencePlaying, queue |-> playbackQueue,
   word |-> currentWord, avail |-> availableVideos, missing |-> missingWords,
   err |-> videoError, video |-> video, plays |-> abandonedPlays, timers |-> timers,
   emitted |-> <<>>, qds |-> queueDataset]

Set(step, s) ==
  /\ lastStep' = step
  /\ currentVideoIndex' = s.idx
  /\ isSequencePlaying' = s.playing
  /\ playbackQueue' = s.queue
  /\ currentWord' = s.word
  /\ availableVideos' = s.avail
  /\ missingWords' = s.missing
  /\ videoError' = s.err
  /\ video' = s.video
  /\ abandonedPlays' = s.plays
  /\ timers' = s.timers
  /\ emitted' = s.emitted
  /\ queueDataset' = s.qds

\* ------------------------------------------------------------- getVideoUrl
getVideoUrl(gloss) ==
  LET key == toUpperCase(gloss) IN
  IF key \notin DOMAIN dataset.videos THEN NoUrl
  ELSE IF dataset.baseUrl # "" THEN <<dataset.baseUrl, dataset.videos[key]>>
  ELSE <<dataset.videos[key]>>

\* (mutant) the availability test is dropped: every gloss is queued
findAvailableVideos_noFilter(glosses) ==
  [available |-> [i \in DOMAIN glosses |-> toUpperCase(glosses[i])], missing |-> <<>>]

\* ------------------------------------------------------ findAvailableVideos
RECURSIVE findAvailableVideos(_)
findAvailableVideos(glosses) ==
  IF glosses = <<>> THEN [available |-> <<>>, missing |-> <<>>]
  ELSE LET n     == Len(glosses)
           rest  == findAvailableVideos(SubSeq(glosses, 1, n - 1))
           gloss == glosses[n]
       IN  IF getVideoUrl(gloss) # NoUrl
           THEN [rest EXCEPT !.available = Append(@, toUpperCase(gloss))]
           ELSE [rest EXCEPT !.missing = Append(@, gloss)]

\* ---------------------------------------------------- the media element API
\* a play() promise that can no longer resolve stays pending until it rejects
Abandon(plays, v) ==
  IF v.status = "pending" /\ plays[v.gloss] < MaxPending
  THEN [plays EXCEPT ![v.gloss] = @ + 1]
  ELSE plays

\* videoRef.current.pause(), guarded by `if (videoRef.current)`
Pause(s) ==
  IF s.err # "" \/ s.video.status \notin {"pending", "playing"} THEN s
  ELSE [s EXCEPT !.video.status = "paused", !.plays = Abandon(s.plays, s.video)]

\* the commit of a render: the <video> element exists only while videoError
\* is empty; an unmounted element is dropped and a fresh one mounted later
Mount(s) ==
  IF s.err = "" THEN s
  ELSE [s EXCEPT !.video = NoVideo, !.plays = Abandon(s.plays, s.video)]

\* ------------------------------------------------------------ playNextVideo
\* (mutant) the end of the queue is reported without leaving the playing state
playNextVideo_staysPlaying(s) ==
  IF s.idx < Len(s.queue)
  THEN LET currentGloss == s.queue[s.idx + 1]
           videoUrl     == getVideoUrl(currentGloss)
           started      == IF s.err = "" /\ videoUrl # NoUrl
                           THEN [s EXCEPT !.video = [gloss |-> currentGloss, src |-> videoUrl,
                                                     status |-> "pending", origin |-> "current"],
                                          !.plays = Abandon(s.plays, s.video)]
                           ELSE s
       IN  [started EXCEPT !.word = currentGloss, !.err = ""]
  ELSE [s EXCEPT !.word = "",
                 !.emitted = @ \o <<"onSequenceComplete", "toast:Sequence Complete">>]

playNextVideo(s) ==
  IF s.idx < Len(s.queue)
  THEN LET currentGloss == s.queue[s.idx + 1]
           videoUrl     == getVideoUrl(currentGloss)
           started      == IF s.err = "" /\ videoUrl # NoUrl
                           THEN [s EXCEPT !.video = [gloss |-> currentGloss, src |-> videoUrl,
                                                     status |-> "pending", origin |-> "current"],
                                          !.plays = Abandon(s.plays, s.video)]
                           ELSE s
       IN  [started EXCEPT !.word = currentGloss, !.err = ""]
  ELSE [s EXCEPT !.playing = FALSE, !.word = "",
                 !.emitted = @ \o <<"onSequenceComplete", "toast:Sequence Complete">>]

\* (mutant) the effect calls playNextVideo without testing isSequencePlaying
Render_noPlayingTest(old, new) ==
  LET committed == Mount(new) IN
  IF committed.idx # old.idx \/ committed.playing # old.playing
  THEN playNextVideo(committed)
  ELSE committed

\* useEffect(..., [currentVideoIndex, isSequencePlaying]) after the render
\* that commits `new` over `old`
Render(old, new) ==
  LET committed == Mount(new) IN
  IF (committed.idx # old.idx \/ committed.playing # old.playing) /\ committed.playing
  THEN playNextVideo(committed)
  ELSE committed

\* -------------------------------------------------------------------- Init
\* `result` is <<>> until the function applied has returned, then <<value>>
NotReturned == <<>>

\* the component after its first render, and the class-static preloader
PlayerInit ==
  /\ currentVideoIndex = 0
  /\ isSequencePlaying = FALSE
  /\ playbackQueue = <<>>
  /\ currentWord = ""
  /\ availableVideos = <<>>
  /\ missingWords = <<>>
  /\ videoError = ""
  /\ dataset = DEFAULT_ISL_DATASET
  /\ video = NoVideo
  /\ abandonedPlays = NoPlays
  /\ timers = NoTimers
  /\ emitted = <<>>
  /\ lastStep = "mount"
  /\ queueDataset = DEFAULT_ISL_DATASET
  /\ preloadedVideos = {}
  /\ preloadQueue = {}
  /\ preloadWaiters = {}
  /\ preloadFetches = NoFetches

\* the hook and the feature component after their first render
SpeechInit ==
  /\ transcript = ""
  /\ isListening = FALSE
  /\ recognition = "none"
  /\ debounce = <<>>
  /\ rawInterim = FALSE
  /\ updateTimer = <<>>
  /\ featureGlosses = <<>>
  /\ isVideoPlaying = FALSE
  /\ piped = <<>>

Init ==
  /\ PlayerInit
  /\ SpeechInit
  /\ call = "" /\ arg = <<>> /\ result = NotReturned


\* ----------------------------------------------------------- history marks
\* every pending timer was scheduled before the call that is being modelled
MarkStale(tm) ==
  [t \in TimerIds |-> IF t[2] THEN tm[<<t[1], TRUE>>] + tm[<<t[1], FALSE>>] ELSE 0]

\* the queue the loaded clip was taken from is being replaced (how = "superseded")
\* or cleared (how = "reset")
MarkOrigin(v, how) ==
  IF v.status = "empty" THEN v
  ELSE IF how = "superseded" /\ v.origin = "reset" THEN v
  ELSE [v EXCEPT !.origin = how]

\* ------------------------------------------------------------ VideoPreloader
Preloader ==
  [cached |-> preloadedVideos, queue |-> preloadQueue, waiters |-> preloadWaiters,
   fetches |-> preloadFetches]

\* (mutant) the test of preloadQueue is dropped: every miss creates an element
preloadVideo_noDedup(p, url) ==
  IF url \in p.cached THEN p
  ELSE [p EXCEPT !.queue = @ \cup {url}, !.fetches[url] = @ + 1]

\* the cached branch returns the element, the preloadQueue branch starts to
\* poll for it, the last branch creates a <video> element and sets its src
preloadVideo(p, url) ==
  IF url \in p.cached THEN p
  ELSE IF url \in p.queue THEN [p EXCEPT !.waiters = @ \cup {url}]
  ELSE [p EXCEPT !.queue = @ \cup {url}, !.fetches[url] = @ + 1]

RECURSIVE preloadVideoList(_, _)
preloadVideoList(p, urls) ==
  IF urls = <<>> THEN p
  ELSE preloadVideoList(preloadVideo(p, Head(urls)), Tail(urls))

\* the urls preloadVideosForGlosses hands to the preloader
preloadVideosForGlosses(glosses) ==
  SelectSeq([i \in DOMAIN glosses |-> getVideoUrl(glosses[i])], LAMBDA u : u # NoUrl)

SetPreloader(p) ==
  /\ preloadedVideos' = p.cached
  /\ preloadQueue' = p.queue
  /\ preloadWaiters' = p.waiters
  /\ preloadFetches' = p.fetches

\* video.oncanplaythrough of an element that is loading `url`
PreloadCanPlayThrough(url) ==
  /\ preloadFetches[url] > 0
  /\ preloadFetches' = [preloadFetches EXCEPT ![url] = @ - 1]
  /\ preloadedVideos' = preloadedVideos \cup {url}
  /\ preloadQueue' = preloadQueue \ {url}
  /\ UNCHANGED <<preloadWaiters, dataset, textVars, speechVars>>
  /\ Set("oncanplaythrough", State)

\* video.onerror of an element that is loading `url`
PreloadError(url) ==
  /\ preloadFetches[url] > 0
  /\ preloadFetches' = [preloadFetches EXCEPT ![url] = @ - 1]
  /\ preloadQueue' = preloadQueue \ {url}
  /\ UNCHANGED <<preloadedVideos, preloadWaiters, dataset, textVars, speechVars>>
  /\ Set("onerror", State)

\* a tick of the setInterval of the waiting calls that finds the locator cached
PreloadPoll(url) ==
  /\ url \in preloadWaiters
  /\ url \in preloadedVideos
  /\ preloadWaiters' = preloadWaiters \ {url}
  /\ UNCHANGED <<preloadedVideos, preloadQueue, preloadFetches, dataset, textVars, speechVars>>
  /\ Set("checkInterval", State)

\* ------------------------------------------------------ the imperative handle
PlaySequenceCall(glosses) ==
  LET r       == findAvailableVideos(glosses)
      preload == preloadVideos /\ Len(r.available) > 0
      toasts  == (IF preload THEN <<"toast:Videos Preloaded">> ELSE <<>>)
                 \o (IF Len(r.missing) > 0 THEN <<"toast:word(s) not found">> ELSE <<>>)
                 \o (IF Len(r.available) > 0 THEN <<"toast:Playing ISL sequence">> ELSE <<>>)
      s1      == [State EXCEPT !.avail = r.available, !.missing = r.missing,
                               !.queue = r.available, !.idx = 0, !.playing = TRUE,
                               !.emitted = toasts, !.qds = dataset,
                               !.timers = MarkStale(@),
                               !.video = MarkOrigin(@, "superseded")]
  IN  /\ Set("playSequence", Render(State, s1))
      /\ SetPreloader(IF preload
                      THEN preloadVideoList(Preloader, preloadVideosForGlosses(r.available))
                      ELSE Preloader)

\* playSequence called through the ref by any parent
PlaySequence(glosses) ==
  /\ PlaySequenceCall(glosses)
  /\ UNCHANGED <<dataset, textVars, speechVars>>

\* (mutant) stopSequence also rewinds the cursor, as handleReset does
StopSequence_rewinds ==
  /\ Set("stopSequence", Render(State, [Pause(State) EXCEPT !.playing = FALSE, !.idx = 0,
                                                           !.word = "", !.err = "",
                                                           !.timers = MarkStale(@)]))
  /\ UNCHANGED <<dataset, preloaderVars, textVars, speechVars>>

StopSequence ==
  /\ Set("stopSequence", Render(State, [Pause(State) EXCEPT !.playing = FALSE, !.word = "", !.err = "",
                                            !.timers = MarkStale(@)]))
  /\ UNCHANGED <<dataset, preloaderVars, textVars, speechVars>>

\* (mutant) reset() forgets videoRef.current.pause()
Reset_noPause ==
  /\ Set("reset", Render(State, [State EXCEPT !.playing = FALSE, !.idx = 0, !.queue = <<>>,
                                              !.word = "", !.avail = <<>>, !.missing = <<>>,
                                              !.err = "",
                                              !.timers = MarkStale(@),
                                              !.video = MarkOrigin(@, "reset")]))
  /\ UNCHANGED <<dataset, preloaderVars, textVars, speechVars>>

ResetCall ==
  LET halted == Pause(State) IN
  Set("reset", Render(State, [halted EXCEPT !.playing = FALSE, !.idx = 0, !.queue = <<>>,
                                   !.word = "", !.avail = <<>>, !.missing = <<>>,
                                   !.err = "",
                                   !.timers = MarkStale(@),
                                   !.video = MarkOrigin(@, "reset")]))

Reset ==
  /\ ResetCall
  /\ UNCHANGED <<dataset, preloaderVars, textVars, speechVars>>

\* ------------------------------------------------------------- the buttons
\* currentGlosses is a prop: whatever list the parent holds at the click
HandleManualPlay(currentGlosses) ==
  /\ ~isSequencePlaying                \* the Play button replaces Pause
  /\ Len(currentGlosses) # 0           \* disabled={currentGlosses.length === 0}
  /\ LET r == findAvailableVideos(currentGlosses) IN
     Set("handleManualPlay", Render(State, [State EXCEPT !.avail = r.available, !.missing = r.missing,
                                     !.queue = r.available, !.idx = 0, !.playing = TRUE,
                                     !.qds = dataset]))
  /\ UNCHANGED <<dataset, preloaderVars, textVars, speechVars>>

HandlePause ==
  /\ isSequencePlaying                 \* the Pause button replaces Play
  /\ Set("handlePause", Render(State, [Pause(State) EXCEPT !.playing = FALSE]))
  /\ UNCHANGED <<dataset, preloaderVars, textVars, speechVars>>

\* (mutant) neither the button nor the handler checks the end of the queue
HandleSkipForward_unclamped ==
  /\ isSequencePlaying
  /\ Set("handleSkipForward", Render(State, [State EXCEPT !.idx = @ + 1]))
  /\ UNCHANGED <<dataset, preloaderVars, textVars, speechVars>>

HandleSkipForward ==
  /\ ~(~isSequencePlaying \/ currentVideoIndex >= Len(playbackQueue) - 1)   \* disabled
  /\ Set("handleSkipForward", Render(State, IF currentVideoIndex < Len(playbackQueue) - 1
                       THEN [State EXCEPT !.idx = @ + 1] ELSE State))
  /\ UNCHANGED <<dataset, preloaderVars, textVars, speechVars>>

HandleSkipBack ==
  /\ ~(~isSequencePlaying \/ currentVideoIndex = 0)                         \* disabled
  /\ Set("handleSkipBack", Render(State, IF currentVideoIndex > 0
                       THEN [State EXCEPT !.idx = @ - 1] ELSE State))
  /\ UNCHANGED <<dataset, preloaderVars, textVars, speechVars>>

HandleReset ==
  /\ Set("handleReset", Render(State, [Pause(State) EXCEPT !.idx = 0, !.playing = FALSE, !.word = ""]))
  /\ UNCHANGED <<dataset, preloaderVars, textVars, speechVars>>

\* ------------------------------------------------- media events and timeouts
\* the catch block of playNextVideo, for the call that was playing `gloss`
PlayFailed(s, gloss) ==
  [s EXCEPT !.err = gloss, !.timers[<<"backoff", FALSE>>] = @ + 1]

\* `await videoRef.current.play()` resolves: the clip plays
PlayResolves ==
  /\ video.status = "pending"
  /\ Set("play resolved", [State EXCEPT !.video.status = "playing"])
  /\ UNCHANGED <<dataset, preloaderVars, textVars, speechVars>>

\* `await videoRef.current.play()` rejects for the clip being started
PlayRejects ==
  /\ video.status = "pending"
  /\ TimerCount(timers) < MaxTimers
  /\ Set("play rejected", Render(State, PlayFailed([State EXCEPT !.video.status = "error"], video.gloss)))
  /\ UNCHANGED <<dataset, preloaderVars, textVars, speechVars>>

\* the play() promise of a load that was paused, replaced or unmounted rejects
AbandonedPlayRejects(gloss) ==
  /\ abandonedPlays[gloss] > 0
  /\ TimerCount(timers) < MaxTimers
  /\ Set("play rejected", Render(State, PlayFailed([State EXCEPT !.plays[gloss] = @ - 1], gloss)))
  /\ UNCHANGED <<dataset, preloaderVars, textVars, speechVars>>

\* (mutant) the end of the last clip also rewinds the cursor
handleVideoEnded_rewinds(s) ==
  IF s.playing /\ s.idx < Len(s.queue) - 1
  THEN [s EXCEPT !.timers[<<"clipEnd", FALSE>>] = @ + 1]
  ELSE [s EXCEPT !.playing = FALSE, !.word = "", !.idx = 0]

\* onEnded={handleVideoEnded}
handleVideoEnded(s) ==
  IF s.playing /\ s.idx < Len(s.queue) - 1
  THEN [s EXCEPT !.timers[<<"clipEnd", FALSE>>] = @ + 1]
  ELSE [s EXCEPT !.playing = FALSE, !.word = ""]

VideoEnded ==
  /\ video.status = "playing"
  /\ (isSequencePlaying /\ currentVideoIndex < Len(playbackQueue) - 1)
       => TimerCount(timers) < MaxTimers
  /\ Set("handleVideoEnded", Render(State, handleVideoEnded([State EXCEPT !.video.status = "ended"])))
  /\ UNCHANGED <<dataset, preloaderVars, textVars, speechVars>>

\* a setTimeout continuation runs: setCurrentVideoIndex(prev => prev + 1)
TimerFires(t) ==
  /\ timers[t] > 0
  /\ Set("setTimeout", Render(State, [State EXCEPT !.timers[t] = @ - 1, !.idx = @ + 1]))
  /\ UNCHANGED <<dataset, preloaderVars, textVars, speechVars>>

\* the dataset prop is replaced (updateISLDataset / a parent passing another one)
UpdateDataset(d) ==
  /\ d # dataset
  /\ dataset' = d
  /\ Set("dataset", State)
  /\ UNCHANGED <<preloaderVars, textVars, speechVars>>

\* ========================================================= SpeechProcessor
\* Object.entries(mergedWordPatterns), in insertion order
mergedWordPatterns ==
  <<<<"HELLOHELLO", <<"HELLO", "HELLO">>>>,
    <<"GOODMORNING", <<"GOOD", "MORNING">>>>,
    <<"GOODEVENING", <<"GOOD", "EVENING">>>>,
    <<"GOODNIGHT", <<"GOOD", "NIGHT">>>>,
    <<"THANKYOU", <<"THANK", "YOU">>>>,
    <<"NAMEIS", <<"NAME", "IS">>>>,
    <<"HOWERE", <<"HOW", "ARE">>>>,
    <<"WHEREARE", <<"WHERE", "ARE">>>>,
    <<"WHATARE", <<"WHAT", "ARE">>>>,
    <<"WHOARE", <<"WHO", "ARE">>>>,
    <<"CANNOTCANNOT", <<"CANNOT">>>>,
    <<"WILLNOT", <<"WILL", "NOT">>>>,
    <<"DONOT", <<"DO", "NOT">>>>,
    <<"IAMIAM", <<"I", "AM">>>>>>

commonWords ==
  {"HELLO", "GOOD", "MORNING", "EVENING", "NIGHT", "THANK", "YOU", "NAME", "IS",
   "HOW", "ARE", "WHERE", "WHAT", "WHO", "WHEN", "WHY", "CAN", "WILL", "NOT", "DO",
   "HAVE", "GET", "GO", "COME", "SEE", "HEAR", "SPEAK", "UNDERSTAND", "KNOW",
   "LEARN", "TEACH", "HELP", "WORK", "PLAY", "EAT", "DRINK", "SLEEP", "MY", "YOUR",
   "HIS", "HER", "OUR", "THEIR", "I", "WE", "THEY", "HE", "SHE"}

\* intelligentWordSplit: "Short words are unlikely to be merged"
ShortWord == 6

\* (mutant) the last successful cut wins
RECURSIVE findWordSplits_lastCut(_)
findWordSplits_lastCut(word) ==
  IF Len(word) <= 4 THEN <<word>>
  ELSE LET n    == Len(word)
           cuts == {i \in 3..(n - 3) :
                      /\ SubSeq(word, 1, i) \in commonWords
                      /\ SubSeq(word, i + 1, n) \in commonWords \/ n - i >= 3}
       IN  IF cuts = {} THEN <<word>>
           ELSE LET i == CHOOSE c \in cuts : \A d \in cuts : c >= d
                IN  <<SubSeq(word, 1, i)>> \o findWordSplits_lastCut(SubSeq(word, i + 1, n))

RECURSIVE findWordSplits(_)
findWordSplits(word) ==
  IF Len(word) <= 4 THEN <<word>>
  ELSE LET n    == Len(word)
           cuts == {i \in 3..(n - 3) :
                      /\ SubSeq(word, 1, i) \in commonWords
                      /\ SubSeq(word, i + 1, n) \in commonWords \/ n - i >= 3}
       IN  IF cuts = {} THEN <<word>>
           ELSE LET i == CHOOSE c \in cuts : \A d \in cuts : c <= d
                IN  <<SubSeq(word, 1, i)>> \o findWordSplits(SubSeq(word, i + 1, n))

\* (mutant) the test of the word's length is dropped
RECURSIVE SplitEach_noShortGuard(_)
SplitEach_noShortGuard(words) ==
  IF words = <<>> THEN <<>>
  ELSE findWordSplits(Head(words)) \o SplitEach_noShortGuard(Tail(words))

\* the loop body of intelligentWordSplit, over the chunks in order
RECURSIVE SplitEach(_)
SplitEach(words) ==
  IF words = <<>> THEN <<>>
  ELSE (IF Len(Head(words)) <= ShortWord THEN <<Head(words)>> ELSE findWordSplits(Head(words)))
       \o SplitEach(Tail(words))

intelligentWordSplit(text) == Join(SplitEach(SplitSpaces(text, "")))

\* the loop of splitMergedWords over the pattern table
RECURSIVE ApplyPatterns(_, _)
ApplyPatterns(text, patterns) ==
  IF patterns = <<>> THEN text
  ELSE ApplyPatterns(ReplaceAll(text, Head(patterns)[1], Join(Head(patterns)[2])),
                     Tail(patterns))

splitMergedWords(text) == intelligentWordSplit(ApplyPatterns(text, mergedWordPatterns))

\* (mutant) a word is dropped when it occurred anywhere before
RECURSIVE removeDuplicateWords_anywhere(_)
removeDuplicateWords_anywhere(words) ==
  IF Len(words) = 0 THEN <<>>
  ELSE LET n    == Len(words)
           init == removeDuplicateWords_anywhere(SubSeq(words, 1, n - 1))
       IN  IF \A i \in 1..(n - 1) : words[i] # words[n] THEN Append(init, words[n]) ELSE init

RECURSIVE removeDuplicateWords(_)
removeDuplicateWords(words) ==
  IF Len(words) = 0 THEN <<>>
  ELSE IF Len(words) = 1 THEN <<words[1]>>
  ELSE LET n    == Len(words)
           init == removeDuplicateWords(SubSeq(words, 1, n - 1))
       IN  IF words[n] # words[n - 1] THEN Append(init, words[n]) ELSE init

\* words.slice(start), start counted from 0
Slice(words, start) == SubSeq(words, start + 1, Len(words))

\* indices are counted from 0 as in the code, -1 is "not found"
findLastOccurrenceOfAny(words, targets) ==
  LET hits == {i \in 0..(Len(words) - 1) : words[i + 1] \in targets}
  IN  IF hits = {} THEN -1 ELSE CHOOSE i \in hits : \A j \in hits : j <= i

findLastNamePattern(words) ==
  LET hits == {i \in 0..(Len(words) - 3) :
                 words[i + 1] = "MY" /\ words[i + 2] = "NAME" /\ words[i + 3] = "IS"}
  IN  IF hits = {} THEN -1 ELSE CHOOSE i \in hits : \A j \in hits : j <= i

Max(a, b) == IF a >= b THEN a ELSE b

findMostCompleteSentence(words) ==
  LET namePatternIndex == findLastNamePattern(words)
  IN  IF namePatternIndex # -1
      THEN Slice(words, Max(0, namePatternIndex - 2))
      ELSE Slice(words, Max(0, (Len(words) * 3) \div 4))     \* Math.floor(length * 0.75)

sentenceStarters == {"HELLO", "HI", "GOOD", "MY", "I", "WE", "YOU"}

findRepeatedPatterns(words) ==
  LET lastStarterIndex == findLastOccurrenceOfAny(words, sentenceStarters)
      completeSentence == findMostCompleteSentence(words)
  IN  (IF lastStarterIndex # -1 THEN <<Slice(words, lastStarterIndex)>> ELSE <<>>)
      \o (IF Len(completeSentence) > 0 THEN <<completeSentence>> ELSE <<>>)

\* possibleSentences.reduce((longest, current) => ...)
RECURSIVE Longest(_)
Longest(sentences) ==
  IF Len(sentences) = 1 THEN sentences[1]
  ELSE LET n       == Len(sentences)
           longest == Longest(SubSeq(sentences, 1, n - 1))
       IN  IF Len(sentences[n]) > Len(longest) THEN sentences[n] ELSE longest

extractFinalSentence(words) ==
  IF Len(words) <= 3 THEN words
  ELSE LET possibleSentences == findRepeatedPatterns(words)
       IN  IF Len(possibleSentences) > 0 THEN Longest(possibleSentences) ELSE words

\* steps 1 and 2 of processRecognizedText; the class of the regular expression
\* /[^\\w\\s-]/g holds the backslash, the letters w and s, and the hyphen
normalizeText(text) == KeepChars(trim(toUpperCase(text)), {"\\", "w", "s", "-"})

MapLower(words) == [i \in DOMAIN words |-> toLowerCase(words[i])]

processRecognizedText(text) ==
  IF text = "" THEN <<>>
  ELSE LET processed == splitMergedWords(normalizeText(text))
           words4    == SelectSeq(SplitSpaces(processed, ""), LAMBDA w : Len(w) > 0)
           words6    == removeDuplicateWords(extractFinalSentence(words4))
       IN  SelectSeq(MapLower(words6), LAMBDA w : Len(w) > 1)

signDictionary ==
  {"hello", "good", "morning", "evening", "night", "thank", "you", "name", "is",
   "how", "are", "where", "what", "who", "when", "why", "can", "will", "not", "do",
   "have", "get", "go", "come", "see", "hear", "speak", "understand", "know",
   "learn", "teach", "help", "work", "play", "eat", "drink", "sleep", "my", "your",
   "his", "her", "our", "their", "i", "we", "they", "he", "she", "mother", "father",
   "sister", "brother", "family", "friend", "love", "like", "happy", "sad", "angry",
   "excited", "scared", "surprised", "tired", "one", "two", "three", "four", "five",
   "six", "seven", "eight", "nine", "ten", "home", "school", "hospital", "water",
   "food", "book", "car", "phone"}

\* (mutant) a word without a sign is dropped instead of being reported
RECURSIVE validateWordsForSigning_dropsMissing(_)
validateWordsForSigning_dropsMissing(words) ==
  IF words = <<>> THEN [valid |-> <<>>, missing |-> <<>>]
  ELSE LET n    == Len(words)
           rest == validateWordsForSigning_dropsMissing(SubSeq(words, 1, n - 1))
       IN  IF toLowerCase(words[n]) \in signDictionary
           THEN [rest EXCEPT !.valid = Append(@, toLowerCase(words[n]))]
           ELSE rest

RECURSIVE validateWordsForSigning(_)
validateWordsForSigning(words) ==
  IF words = <<>> THEN [valid |-> <<>>, missing |-> <<>>]
  ELSE LET n    == Len(words)
           rest == validateWordsForSigning(SubSeq(words, 1, n - 1))
           word == toLowerCase(words[n])
       IN  IF word \in signDictionary
           THEN [rest EXCEPT !.valid = Append(@, word)]
           ELSE [rest EXCEPT !.missing = Append(@, word)]

prepareForSigning(text) ==
  LET processedWords == processRecognizedText(text)
      validation     == validateWordsForSigning(processedWords)
  IN  [originalText |-> text, processedWords |-> processedWords,
       availableWords |-> validation.valid, missingWords |-> validation.missing]

\* ======================================== TranslationService.fallbackTranslation
\* the keys of glossMap; every key maps to itself in upper case, except 'hi'
glossWords ==
  {"hello", "hi", "good", "morning", "afternoon", "evening", "night", "thank", "you",
   "please", "sorry", "yes", "no", "help", "water", "food", "eat", "drink", "sleep",
   "home", "school", "work", "family", "friend", "love", "happy", "sad", "angry",
   "scared", "surprised", "how", "what", "where", "when", "why", "who", "nice",
   "meet", "name", "my", "is", "am", "are", "we", "they", "he", "she", "it", "and",
   "but", "or", "not", "can", "will", "want", "need", "have", "get", "go", "come",
   "see", "hear", "speak", "understand", "know", "learn", "teach", "mother",
   "father", "sister", "brother", "child", "baby", "man", "woman", "boy", "girl",
   "one", "two", "three", "four", "five", "six", "seven", "eight", "nine", "ten"}

glossMap == [w \in glossWords |-> IF w = "hi" THEN "HELLO" ELSE UpperCased(w)]

skipWords == {"the", "a", "an", "to", "of", "in", "on", "at", "by", "for", "with", "from"}

\* (mutant) a word without an entry in glossMap is dropped
fallbackTranslation_dropsUnknown(text) ==
  LET words == SelectSeq(SplitOn(toLowerCase(text), " ", ""), LAMBDA w : Len(w) > 0)
      kept  == SelectSeq(words, LAMBDA w : w \notin skipWords /\ w \in DOMAIN glossMap)
  IN  [i \in DOMAIN kept |-> glossMap[kept[i]]]

fallbackTranslation(text) ==
  LET words == SelectSeq(SplitOn(toLowerCase(text), " ", ""), LAMBDA w : Len(w) > 0)
      kept  == SelectSeq(words, LAMBDA w : w \notin skipWords)
  IN  [i \in DOMAIN kept |->
         IF kept[i] \in DOMAIN glossMap THEN glossMap[kept[i]] ELSE toUpperCase(kept[i])]

\* ============================================ the text utilities, applied
\* ------------------------------------------------------------------ inputs
RECURSIVE StringsUpTo(_, _)
StringsUpTo(chars, n) ==
  IF n = 0 THEN {""}
  ELSE LET shorter == StringsUpTo(chars, n - 1)
       IN  shorter \cup {s \o c : s \in {r \in shorter : Len(r) = n - 1}, c \in chars}

\* raw text: letters of both cases (w and s among them), a digit, underscore,
\* white space, hyphen, backslash and punctuation
TextChars == {"a", "W", "w", "s", "1", "_", " ", "-", "\\", ",", "!"}
RawTexts == StringsUpTo(TextChars, MaxText) \cup {"Hello, world!", " good-morning_1\t"}

\* text made of white-space separated chunks, some merged, some short
Chunks == {"HI", "GOODMORNING", "goodmorning", "DONOT", "WHOARE", "CANADA", "NOTICE",
           "HELLOWORLD", "THANKYOUALL", "PRIYA"}
ChunkTexts == {Join(q) : q \in SeqsUpTo(Chunks, MaxChunks)}

\* chunks for the heuristic split: two successful cuts (YOURNAME), a right
\* part that splits again (WHOAREYOU, CANNOTICE, HELLOCANADA), no cut
\* (UNDERSTAND), one cut (HELPERS), short chunks
LongChunks == {"YOURNAME", "WHOAREYOU", "CANNOTICE", "HELLOCANADA", "UNDERSTAND",
               "HELPERS", "CANADA", "HI"}
LongChunkTexts == {Join(q) : q \in SeqsUpTo(LongChunks, MaxChunks)}

\* token lists as extractFinalSentence and removeDuplicateWords receive them
Tokens == {"HELLO", "MY", "NAME", "IS", "PRIYA"}
TokenLists ==
  SeqsUpTo(Tokens, MaxTokens)
    \cup {<<"HELLO", "MY", "NAME", "IS", "HELLO", "MY", "NAME", "IS", "PRIYA">>,
          <<"a", "a", "b", "b", "b", "c">>, <<"a", "b", "a">>,
          <<"PLEASE", "HELP", "ME", "FIND", "WATER">>}

\* words as validateWordsForSigning receives them, and sentences of them
Words == {"hi", "mother", "Hello", "xyz123", "the"}
WordLists == SeqsUpTo(Words, MaxWords)
Sentences == {Join(q) : q \in WordLists} \cup {"hi  mother"}

TextInit ==
  /\ PlayerInit
  /\ SpeechInit
  /\ result = NotReturned
  /\ \/ call = "processRecognizedText" /\ arg \in RawTexts
     \/ call = "splitMergedWords" /\ arg \in ChunkTexts
     \/ call = "intelligentWordSplit" /\ arg \in LongChunkTexts
     \/ call = "extractFinalSentence" /\ arg \in TokenLists
     \/ call = "removeDuplicateWords" /\ arg \in TokenLists
     \/ call = "validateWordsForSigning" /\ arg \in WordLists
     \/ call = "findAvailableVideos" /\ arg \in GlossLists
     \/ call = "fallbackTranslation" /\ arg \in Sentences

Returns(f, value) ==
  /\ call = f /\ result = NotReturned
  /\ result' = <<value>>
  /\ UNCHANGED <<call, arg, playerVars, dataset, preloaderVars, speechVars>>

\* `step2` is the local `processed` after step 2, `words` the value returned
ProcessRecognizedText ==
  Returns("processRecognizedText",
          [step2 |-> normalizeText(arg), words |-> processRecognizedText(arg)])

SplitMergedWords == Returns("splitMergedWords", splitMergedWords(arg))
IntelligentWordSplit == Returns("intelligentWordSplit", intelligentWordSplit(arg))
ExtractFinalSentence == Returns("extractFinalSentence", extractFinalSentence(arg))
RemoveDuplicateWords == Returns("removeDuplicateWords", removeDuplicateWords(arg))
ValidateWordsForSigning == Returns("validateWordsForSigning", validateWordsForSigning(arg))
FindAvailableVideos == Returns("findAvailableVideos", findAvailableVideos(arg))
FallbackTranslation == Returns("fallbackTranslation", fallbackTranslation(arg))

TextNext ==
  \/ ProcessRecognizedText
  \/ SplitMergedWords
  \/ IntelligentWordSplit
  \/ ExtractFinalSentence
  \/ RemoveDuplicateWords
  \/ ValidateWordsForSigning
  \/ FindAvailableVideos
  \/ FallbackTranslation

TextSpec == TextInit /\ [][TextNext]_vars

\* ==================================== useSpeechRecognition, SignLanguageFeature
\* the texts of the recognition results, and the longest transcript followed
FinalTexts == {"hello", "--"}
InterimTexts == {"he"}
MaxTranscript == 6

\* the gloss lists the translation service returns
TranslatedGlosses == {<<>>, <<"hello">>, <<"xyz">>}

\* useEffect(..., [transcript]) of SignLanguageFeature: the cleanup of the last
\* run clears its timeout, and a transcript that is not blank schedules
\* handleTranscriptUpdate(transcript) in 1000 ms
TranscriptEffect(new, interim) ==
  IF new = transcript THEN updateTimer
  ELSE IF new # "" /\ Len(trim(new)) > 0 THEN <<[text |-> new, interim |-> interim]>>
  ELSE <<>>

\* (history) the pending debounce timeout was scheduled before `what` happened
Overtaken(what) ==
  IF debounce = <<>> THEN debounce ELSE <<[debounce[1] EXCEPT !.overtaken = what]>>

PlayerIdle == UNCHANGED <<playerVars, preloaderVars>>

\* recognition.onstart
OnStart ==
  /\ recognition = "starting"
  /\ recognition' = "active"
  /\ isListening' = TRUE
  /\ UNCHANGED <<transcript, debounce, rawInterim, featureVars, dataset, textVars>>
  /\ PlayerIdle

\* recognition.onend
OnEnd ==
  /\ recognition \in {"active", "stopping"}
  /\ recognition' = "none"
  /\ isListening' = FALSE
  /\ UNCHANGED <<transcript, debounce, rawInterim, featureVars, dataset, textVars>>
  /\ PlayerIdle

\* recognition.onresult for an event whose final results read `final` and
\* whose other results read `interim` (options.interimResults is true)
OnResult(final, interim) ==
  /\ recognition \in {"active", "stopping"}
  /\ final # "" \/ interim # ""
  /\ IF final # ""
     THEN LET cleanedText == Join(processRecognizedText(final))
              combined    == trim(transcript \o " " \o cleanedText)
          IN  /\ Len(combined) <= MaxTranscript
              /\ transcript' = combined
              /\ piped' = <<[from |-> "final result", interim |-> FALSE]>>
              /\ debounce' = Overtaken("final")
              /\ updateTimer' = TranscriptEffect(combined, rawInterim)
     ELSE /\ debounce' = <<[text |-> interim, overtaken |-> "no"]>>
          /\ UNCHANGED <<transcript, piped, updateTimer>>
  /\ UNCHANGED <<isListening, recognition, rawInterim, featureGlosses, isVideoPlaying,
                 dataset, textVars>>
  /\ PlayerIdle

\* the 100 ms timeout of an interim result runs
DebounceFires ==
  /\ debounce # <<>>
  /\ LET appended == transcript \o " " \o debounce[1].text
     IN  /\ Len(appended) <= MaxTranscript
         /\ transcript' = appended
         /\ updateTimer' = TranscriptEffect(appended, TRUE)
  /\ debounce' = <<>>
  /\ rawInterim' = TRUE
  /\ UNCHANGED <<isListening, recognition, featureGlosses, isVideoPlaying, piped,
                 dataset, textVars>>
  /\ PlayerIdle

\* toggleMicrophone: stopListening(), or resetTranscript() and startListening()
ToggleMicrophone ==
  /\ IF isListening
     THEN /\ recognition' = IF recognition \in {"starting", "active"} THEN "stopping"
                            ELSE recognition
          /\ isListening' = FALSE
          /\ UNCHANGED <<transcript, debounce, rawInterim, updateTimer>>
     ELSE /\ transcript' = ""
          /\ rawInterim' = FALSE
          /\ debounce' = Overtaken("reset")
          /\ updateTimer' = TranscriptEffect("", FALSE)
          /\ recognition' = "starting"
          /\ UNCHANGED isListening
  /\ UNCHANGED <<featureGlosses, isVideoPlaying, piped, dataset, textVars>>
  /\ PlayerIdle

\* resetAll: stopVideoPlayback(), resetTranscript(), and reset() of the player
\* (its state updates and those of stopSequence() are committed together)
ResetAll ==
  /\ transcript' = ""
  /\ rawInterim' = FALSE
  /\ debounce' = Overtaken("reset")
  /\ updateTimer' = TranscriptEffect("", FALSE)
  /\ featureGlosses' = <<>>
  /\ isVideoPlaying' = FALSE
  /\ ResetCall
  /\ UNCHANGED <<isListening, recognition, piped, dataset, preloaderVars, textVars>>

\* the glosses are shown and, when there are any, played; handleSequenceComplete
\* runs when the player reports the end of the sequence (currentText, which
\* is only displayed, is left out)
ShowAndPlay(glosses) ==
  /\ featureGlosses' = glosses
  /\ IF Len(glosses) > 0
     THEN /\ PlaySequenceCall(glosses)
          /\ isVideoPlaying' = \A i \in DOMAIN emitted' : emitted'[i] # "onSequenceComplete"
     ELSE /\ PlayerIdle
          /\ UNCHANGED isVideoPlaying

\* the 1000 ms timeout runs handleTranscriptUpdate(text) and the translation
\* service returns `glosses`
HandleTranscriptUpdate(glosses) ==
  /\ updateTimer # <<>>
  /\ ShowAndPlay(glosses)
  /\ updateTimer' = <<>>
  /\ UNCHANGED <<hookVars, piped, dataset, textVars>>

\* the 1000 ms timeout runs handleTranscriptUpdate(text) and its try block
\* throws: the catch block takes the glosses from prepareForSigning(text)
HandleTranscriptUpdateFallback ==
  /\ updateTimer # <<>>
  /\ LET text            == updateTimer[1].text
         processedResult == prepareForSigning(text)
         glosses         == [i \in DOMAIN processedResult.availableWords |->
                               toUpperCase(processedResult.availableWords[i])]
     IN  /\ piped' = <<[from |-> "transcript", interim |-> updateTimer[1].interim]>>
         /\ ShowAndPlay(glosses)
  /\ updateTimer' = <<>>
  /\ UNCHANGED <<hookVars, dataset, textVars>>

SpeechNext ==
  \/ ToggleMicrophone
  \/ ResetAll
  \/ OnStart
  \/ OnEnd
  \/ \E final \in FinalTexts \cup {""}, interim \in InterimTexts \cup {""} :
       OnResult(final, interim)
  \/ DebounceFires
  \/ \E glosses \in TranslatedGlosses : HandleTranscriptUpdate(glosses)
  \/ HandleTranscriptUpdateFallback

SpeechSpec == Init /\ [][SpeechNext]_vars

\* the sequence player; the preloads that playSequence starts stay in flight
\* (the player reads neither preloadedVideos nor preloadQueue)
Next ==
  \/ \E glosses \in GlossLists : PlaySequence(glosses)
  \/ StopSequence
  \/ Reset
  \/ \E glosses \in GlossLists : HandleManualPlay(glosses)
  \/ HandlePause
  \/ HandleSkipForward
  \/ HandleSkipBack
  \/ HandleReset
  \/ PlayResolves
  \/ PlayRejects
  \/ \E gloss \in QueueGlosses : AbandonedPlayRejects(gloss)
  \/ VideoEnded
  \/ \E t \in TimerIds : TimerFires(t)

Spec == Init /\ [][Next]_vars

\* the preloader under the calls that reach it (playSequence) and the events
\* of the elements it creates, while the first clip of the queue plays
PreloadNext ==
  \/ \E glosses \in GlossLists : PlaySequence(glosses)
  \/ \E url \in Urls : PreloadCanPlayThrough(url)
  \/ \E url \in Urls : PreloadError(url)
  \/ \E url \in Urls : PreloadPoll(url)
  \/ PlayResolves
  \/ VideoEnded

PreloadSpec == Init /\ [][PreloadNext]_vars

\* the preloader with the scheduling of the browser: an element that is
\* loading fires oncanplaythrough or onerror, and an interval that can resolve
\* its promise ticks
PreloadLiveSpec ==
  /\ Init /\ [][PreloadNext]_vars
  /\ \A url \in Urls : WF_vars(PreloadCanPlayThrough(url) \/ PreloadError(url))
  /\ \A url \in Urls : WF_vars(PreloadPoll(url))

\* a sequence that plays undisturbed while the parent replaces the dataset prop
DatasetNext ==
  \/ \E glosses \in GlossLists : PlaySequence(glosses)
  \/ \E d \in Datasets : UpdateDataset(d)
  \/ PlayResolves
  \/ VideoEnded
  \/ \E t \in TimerIds : TimerFires(t)

DatasetSpec == Init /\ [][DatasetNext]_vars

\* the player under the imperative calls, with the scheduling of the browser:
\* a play() promise settles, a clip that plays reaches its end, a timeout that
\* is pending runs
Settles == PlayResolves \/ PlayRejects \/ \E gloss \in QueueGlosses : AbandonedPlayRejects(gloss)

LiveNext ==
  \/ \E glosses \in GlossLists : PlaySequence(glosses)
  \/ StopSequence
  \/ Reset
  \/ Settles
  \/ VideoEnded
  \/ \E t \in TimerIds : TimerFires(t)

LiveSpec ==
  /\ Init /\ [][LiveNext]_vars
  /\ WF_vars(Settles)
  /\ WF_vars(VideoEnded)
  /\ WF_vars(\E t \in TimerIds : TimerFires(t))

\* =================================================================== claims
ClipActive == video.status \in {"pending", "playing"}

\* a step in which play() is called on a newly loaded clip
ClipBegins ==
  /\ video'.status = "pending" /\ video'.origin = "current"
  /\ video.status # "pending" \/ video.origin # "current" \/ video.gloss # video'.gloss

\* C1: once playSequence is called with a new gloss list, no clip of the
\* earlier queue plays or keeps playing: whatever clip is being started or
\* played was taken from the queue of the latest playSequence call.
C1_SupersededClipNeverPlays == ClipActive => video.origin # "superseded"

\* C2: a clip-end or error-backoff timer that was scheduled before
\* stopSequence(), reset() or a new playSequence changes neither the cursor
\* nor the queue when it later fires.
C2_StaleTimerChangesNothing ==
  [][\A kind \in TimerKinds :
       TimerFires(<<kind, TRUE>>) =>
         /\ currentVideoIndex' = currentVideoIndex
         /\ playbackQueue' = playbackQueue]_vars

\* C3: when starting the clip at the cursor has failed, the backoff timer
\* advances the cursor by one and the sequence goes on: the following clip is
\* started, or the sequence completes when the failed clip was the last one.
C3_FailedClipIsSkipped ==
  [][(TimerFires(<<"backoff", FALSE>>) /\ isSequencePlaying) =>
       /\ currentVideoIndex' = currentVideoIndex + 1
       /\ currentVideoIndex' < Len(playbackQueue) =>
            /\ video'.status = "pending"
            /\ video'.gloss = playbackQueue[currentVideoIndex' + 1]
       /\ currentVideoIndex' >= Len(playbackQueue) =>
            /\ ~isSequencePlaying'
            /\ \E i \in DOMAIN emitted' : emitted'[i] = "onSequenceComplete"]_vars

\* C4: when the clip at the last index ends while the sequence is playing, the
\* controller leaves the playing state and emits onSequenceComplete; when a
\* clip at an earlier index ends, the inter-clip timer is scheduled, and when
\* it fires the cursor advances by one and the next clip is started.
C4_LastClipEndEmitsComplete ==
  [][/\ (VideoEnded /\ isSequencePlaying /\ currentVideoIndex = Len(playbackQueue) - 1) =>
          /\ ~isSequencePlaying'
          /\ \E i \in DOMAIN emitted' : emitted'[i] = "onSequenceComplete"
     /\ (VideoEnded /\ isSequencePlaying /\ currentVideoIndex < Len(playbackQueue) - 1) =>
          /\ timers'[<<"clipEnd", FALSE>>] = timers[<<"clipEnd", FALSE>>] + 1
          /\ currentVideoIndex' = currentVideoIndex
     /\ (TimerFires(<<"clipEnd", FALSE>>) /\ isSequencePlaying /\ videoError = "") =>
          /\ currentVideoIndex' = currentVideoIndex + 1
          /\ currentVideoIndex' < Len(playbackQueue) =>
               /\ video'.status = "pending"
               /\ video'.gloss = playbackQueue[currentVideoIndex' + 1]]_vars

\* ---------------------------------------------------------------------- C5
HasClip(gloss) == toUpperCase(gloss) \in DOMAIN dataset.videos
MissingToasts(e) == Cardinality({i \in DOMAIN e : e[i] = "toast:word(s) not found"})

\* C5: for every gloss list passed to playSequence, only glosses with a clip
\* in the dataset are queued and started; the others are never queued and
\* are reported once per call, in one aggregated report issued by that call.
C5_OnlyGlossesWithClipArePlayed ==
  /\ [](\A i \in DOMAIN playbackQueue : HasClip(playbackQueue[i]))
  /\ [](video.gloss # "" => HasClip(video.gloss))
  /\ [][lastStep' = "playSequence" =>
          \E glosses \in GlossLists :
            LET with    == SelectSeq(glosses, LAMBDA g : HasClip(g))
                without == SelectSeq(glosses, LAMBDA g : ~HasClip(g))
            IN  /\ PlaySequence(glosses)
                /\ playbackQueue' = [i \in DOMAIN with |-> toUpperCase(with[i])]
                /\ missingWords' = without
                /\ MissingToasts(emitted') = (IF without = <<>> THEN 0 ELSE 1)]_vars
  /\ [][lastStep' # "playSequence" => MissingToasts(emitted') = 0]_vars

C5_Witness ==
  /\ lastStep = "playSequence"
  /\ Len(playbackQueue) = 1 /\ Len(missingWords) = 1
  /\ MissingToasts(emitted) = 1
  /\ video.status = "pending" /\ video.gloss = playbackQueue[1]

\* ---------------------------------------------------------------------- C6
Rewinds ==
  \/ Reset
  \/ HandleReset
  \/ \E glosses \in GlossLists : PlaySequence(glosses)
  \/ \E glosses \in GlossLists : HandleManualPlay(glosses)

\* C6 (as claimed): the cursor keeps its value, increases, or is set to 0 by
\* an explicit reset; no other operation, the skip-back control included,
\* decreases it.
C6_CursorNeverDecreases ==
  [][currentVideoIndex' < currentVideoIndex => (currentVideoIndex' = 0 /\ Rewinds)]_vars

\* C6 (amended): the cursor decreases only when reset, handleReset,
\* playSequence or the Play button set it to 0, or when the skip-back control
\* moves it back by exactly one.
C6_CursorDecreasesOnlyByRewindOrSkipBack ==
  [][currentVideoIndex' < currentVideoIndex =>
       \/ currentVideoIndex' = 0 /\ Rewinds
       \/ currentVideoIndex' = currentVideoIndex - 1 /\ HandleSkipBack]_vars

C6_Witness ==
  /\ lastStep = "handleSkipBack"
  /\ currentVideoIndex = 0
  /\ isSequencePlaying

\* ---------------------------------------------------------------------- C7
SkipMovesByOne ==
  /\ HandleSkipForward => currentVideoIndex' = currentVideoIndex + 1
  /\ HandleSkipBack => currentVideoIndex' = currentVideoIndex - 1
  /\ isSequencePlaying
  /\ 0 <= currentVideoIndex' /\ currentVideoIndex' <= Len(playbackQueue) - 1

\* C7 (as claimed): the skip controls are accepted only while the controller
\* is not idle, move the cursor by exactly one within [0, length-1], and do
\* not start playback of any clip.
C7_SkipStartsNoClip ==
  [][(HandleSkipForward \/ HandleSkipBack) => (SkipMovesByOne /\ video' = video)]_vars

\* C7 (amended): the skip controls are accepted only while the sequence is
\* playing, move the cursor by exactly one within [0, length-1], and start
\* the clip at the new cursor whenever the video element is mounted.
C7_SkipStartsClipAtNewCursor ==
  [][(HandleSkipForward \/ HandleSkipBack) =>
       /\ SkipMovesByOne
       /\ videoError = "" =>
            /\ video'.status = "pending"
            /\ video'.gloss = playbackQueue[currentVideoIndex' + 1]
       /\ videoError # "" => video' = video]_vars

C7_Witness ==
  /\ lastStep = "handleSkipForward"
  /\ currentVideoIndex = 1
  /\ video.status = "pending" /\ video.gloss = playbackQueue[2]

\* ---------------------------------------------------------------------- C8
\* C8: reset() halts the media, empties the queue, sets the cursor to 0 and
\* leaves the controller idle; afterwards the clip that was loaded before the
\* reset is never started or played again, and every clip that is started is
\* the one at the cursor of the queue then in force.
C8_ResetClearsAndOldClipNeverPlays ==
  /\ [][Reset => /\ playbackQueue' = <<>>
                 /\ currentVideoIndex' = 0
                 /\ ~isSequencePlaying'
                 /\ video'.status \notin {"pending", "playing"}]_vars
  /\ [](ClipActive => video.origin # "reset")
  /\ [][ClipBegins =>
          /\ currentVideoIndex' < Len(playbackQueue')
          /\ video'.gloss = playbackQueue'[currentVideoIndex' + 1]]_vars

C8_Witness ==
  /\ lastStep = "reset"
  /\ video.status = "paused" /\ video.origin = "reset"
  /\ playbackQueue = <<>> /\ currentVideoIndex = 0 /\ ~isSequencePlaying

\* ---------------------------------------------------------------------- C9
\* C9: stopSequence() halts the media and stops the sequence, and leaves the
\* playback queue and the cursor as they were when it was called.
C9_StopKeepsQueueAndCursor ==
  [][StopSequence => /\ playbackQueue' = playbackQueue
                     /\ currentVideoIndex' = currentVideoIndex
                     /\ ~isSequencePlaying'
                     /\ video'.status \notin {"pending", "playing"}]_vars

C9_Witness ==
  /\ lastStep = "stopSequence"
  /\ video.status = "paused"
  /\ currentVideoIndex = 1 /\ Len(playbackQueue) = 2

\* --------------------------------------------------------------------- C10
\* C10: clips play strictly one after the other: when a timer advances the
\* cursor and the clip at the new cursor begins, the clip started before it
\* is no longer being started or played (it ended, failed or was skipped).
C10_NextClipBeginsAfterPreviousIsDone ==
  [][((\E t \in TimerIds : TimerFires(t))
        /\ isSequencePlaying /\ videoError = ""
        /\ currentVideoIndex' < Len(playbackQueue)
        /\ video'.status = "pending") => ~ClipActive]_vars

\* --------------------------------------------------------------------- C11
\* the locators one playSequence(glosses) call hands to preloadVideo
Requested(glosses) ==
  LET urls == preloadVideosForGlosses(findAvailableVideos(glosses).available)
  IN  {urls[i] : i \in DOMAIN urls}

\* C11: for any clip locator at most one fetch is in flight at a time: a
\* preloadVideo request for a locator that is being preloaded creates no
\* second element and waits for the first one, and a request for a cached
\* locator returns the cached handle and creates no element.
C11_AtMostOneFetchPerLocator ==
  /\ [](\A url \in Urls : /\ preloadFetches[url] <= 1
                          /\ preloadFetches[url] = 1 <=> url \in preloadQueue
                          /\ url \in preloadedVideos => preloadFetches[url] = 0)
  /\ [][\A glosses \in GlossLists : PlaySequence(glosses) =>
          \A url \in Requested(glosses) :
            /\ url \in preloadQueue =>
                 preloadFetches'[url] = 1 /\ url \in preloadWaiters'
            /\ url \in preloadedVideos =>
                 /\ preloadFetches'[url] = 0 /\ url \in preloadedVideos'
                 /\ url \in preloadWaiters' <=> url \in preloadWaiters]_vars

C11_Witness ==
  /\ lastStep = "playSequence" /\ Len(playbackQueue) = 2
  /\ LET u == getVideoUrl(playbackQueue[1])
         v == getVideoUrl(playbackQueue[2])
     IN  /\ u # v
         /\ u \in preloadWaiters /\ preloadFetches[u] = 1
         /\ v \in preloadedVideos /\ preloadFetches[v] = 0 /\ v \notin preloadWaiters

\* --------------------------------------------------------------------- C12
\* C12: playSequence with at least one available gloss leaves the controller
\* playing at cursor 0 with the clip at index 0 being started, whatever the
\* state of the preloads is (in flight, failed, cached or never settling).
C12_PlaySequenceStartsFirstClip ==
  [][\A glosses \in GlossLists :
       (PlaySequence(glosses) /\ Len(playbackQueue') > 0) =>
         /\ isSequencePlaying' /\ currentVideoIndex' = 0
         /\ video'.status = "pending" /\ video'.origin = "current"
         /\ video'.gloss = playbackQueue'[1]]_vars

\* --------------------------------------------------------------------- C13
\* the locator dataset d gives for a gloss
LocatorIn(d, gloss) ==
  IF toUpperCase(gloss) \notin DOMAIN d.videos THEN NoUrl
  ELSE <<d.baseUrl, d.videos[toUpperCase(gloss)]>>

\* C13: the clips of a sequence are resolved in the dataset that was active
\* when its queue was built: every clip that is started has the locator that
\* dataset gives for its gloss, and when the inter-clip timer moves the cursor
\* to a further entry of the queue that entry is started, whether or not the
\* dataset prop has been replaced in between.
C13_QueueResolvedInDatasetOfPlaySequence ==
  /\ [][ClipBegins => video'.src = LocatorIn(queueDataset', video'.gloss)]_vars
  /\ [][(TimerFires(<<"clipEnd", FALSE>>) /\ isSequencePlaying /\ videoError = ""
           /\ currentVideoIndex' < Len(playbackQueue)) =>
          /\ video'.status = "pending"
          /\ video'.gloss = playbackQueue[currentVideoIndex' + 1]]_vars

\* --------------------------------------------------------------------- C14
Returned(f) == call = f /\ result # NotReturned
Elements(q) == {q[i] : i \in DOMAIN q}

\* C14: the two lists of one validation pass are disjoint and exhaustive:
\* their lengths add up to the length of the input and no value is in both;
\* each is the input filtered by the availability test, in input order (the
\* elements upper-cased in `available`, lower-cased in `valid` and `missing`).
C14_AvailableAndMissingPartitionInput ==
  /\ Returned("findAvailableVideos") =>
       LET r == result[1]
           with == SelectSeq(arg, LAMBDA g : HasClip(g))
       IN  /\ Len(r.available) + Len(r.missing) = Len(arg)
           /\ Elements(r.available) \cap Elements(r.missing) = {}
           /\ r.available = [i \in DOMAIN with |-> toUpperCase(with[i])]
           /\ r.missing = SelectSeq(arg, LAMBDA g : ~HasClip(g))
  /\ Returned("validateWordsForSigning") =>
       LET r == result[1]
           lower == MapLower(arg)
       IN  /\ Len(r.valid) + Len(r.missing) = Len(arg)
           /\ Elements(r.valid) \cap Elements(r.missing) = {}
           /\ r.valid = SelectSeq(lower, LAMBDA w : w \in signDictionary)
           /\ r.missing = SelectSeq(lower, LAMBDA w : w \notin signDictionary)

C14_Witness ==
  /\ Returned("validateWordsForSigning")
  /\ arg = <<"xyz123", "Hello", "mother">>
  /\ result[1] = [valid |-> <<"hello", "mother">>, missing |-> <<"xyz123">>]

\* --------------------------------------------------------------------- C15
\* C15: steps 1 and 2 of processRecognizedText upper-case and trim the raw
\* text and remove exactly the characters that are neither word characters,
\* white space nor hyphen, so 'Hello, world!' becomes 'HELLO WORLD'.
C15_NormalizeKeepsWordCharsSpaceHyphen ==
  Returned("processRecognizedText") =>
    /\ result[1].step2 = KeepChars(trim(toUpperCase(arg)), WordChars \cup WhiteSpace \cup {"-"})
    /\ arg = "Hello, world!" => result[1].step2 = "HELLO WORLD"

\* --------------------------------------------------------------------- C16
\* C16: for the tokens HELLO MY NAME IS HELLO MY NAME IS PRIYA sentence
\* extraction returns exactly HELLO MY NAME IS PRIYA.
C16_RepeatedNameSentenceIsExtracted ==
  (Returned("extractFinalSentence")
     /\ arg = <<"HELLO", "MY", "NAME", "IS", "HELLO", "MY", "NAME", "IS", "PRIYA">>)
  => result[1] = <<"HELLO", "MY", "NAME", "IS", "PRIYA">>

\* --------------------------------------------------------------------- C17
HasStarter(words) == \E i \in DOMAIN words : words[i] \in sentenceStarters
HasNameIdiom(words) ==
  \E i \in 1..(Len(words) - 2) :
    words[i] = "MY" /\ words[i + 1] = "NAME" /\ words[i + 2] = "IS"

\* C17: sentence extraction returns a list of at most 3 tokens unchanged, and
\* returns a longer list unchanged when it holds no sentence starter and no
\* 'MY NAME IS' idiom.
C17_NoPatternReturnsInputUnchanged ==
  Returned("extractFinalSentence") =>
    /\ Len(arg) <= 3 => result[1] = arg
    /\ (Len(arg) > 3 /\ ~HasStarter(arg) /\ ~HasNameIdiom(arg)) => result[1] = arg

\* --------------------------------------------------------------------- C18
\* the elements of q at the positions in K, in order
RECURSIVE AtPositions(_, _)
AtPositions(q, K) ==
  IF q = <<>> THEN <<>>
  ELSE LET n == Len(q)
           init == AtPositions(SubSeq(q, 1, n - 1), K)
       IN  IF n \in K THEN Append(init, q[n]) ELSE init

\* C18: duplicate collapsing removes a token exactly when it equals the token
\* immediately before it in the input: a,a,b,b,b,c becomes a,b,c and a,b,a
\* stays; the output has no two equal adjacent tokens and collapsing it again
\* changes nothing.
C18_CollapseRemovesExactlyAdjacentRepeats ==
  Returned("removeDuplicateWords") =>
    LET out == result[1]
    IN  /\ out = AtPositions(arg, {i \in DOMAIN arg : i = 1 \/ arg[i] # arg[i - 1]})
        /\ \A i \in 1..(Len(out) - 1) : out[i] # out[i + 1]
        /\ removeDuplicateWords(out) = out
        /\ arg = <<"a", "a", "b", "b", "b", "c">> => out = <<"a", "b", "c">>
        /\ arg = <<"a", "b", "a">> => out = arg

C18_Witness ==
  /\ Returned("removeDuplicateWords")
  /\ arg = <<"a", "a", "b", "b", "b", "c">>
  /\ result[1] = <<"a", "b", "c">>

\* --------------------------------------------------------------------- C19
\* the white-space delimited chunks of a text
ChunksOf(text) == SelectSeq(SplitSpaces(text, ""), LAMBDA w : w # "")

RECURSIVE Flatten(_)
Flatten(lists) == IF lists = <<>> THEN <<>> ELSE Head(lists) \o Flatten(Tail(lists))

\* some entry of the merged-word table occurs in the chunk, in either case
ContainsPattern(chunk) ==
  \E k \in DOMAIN mergedWordPatterns :
    LET merged == mergedWordPatterns[k][1]
    IN  \E i \in 1..(Len(chunk) - Len(merged) + 1) :
          toUpperCase(SubSeq(chunk, i, i + Len(merged) - 1)) = merged

\* C19 (as claimed): every chunk of at most 6 characters of the input is one
\* token of the segmented output, unchanged, and GOODMORNING is output as the
\* two tokens GOOD and MORNING.
C19_ShortChunksAreNeverSplit ==
  Returned("splitMergedWords") =>
    /\ \A c \in Elements(ChunksOf(arg)) :
         Len(c) <= 6 => c \in Elements(ChunksOf(result[1]))
    /\ arg = "GOODMORNING" => ChunksOf(result[1]) = <<"GOOD", "MORNING">>

\* C19 (amended): every chunk is expanded on its own; a chunk of at most 6
\* characters in which no entry of the merged-word table occurs is one token
\* of the output, unchanged; the table is applied whatever the length, so
\* DONOT becomes DO NOT, and GOODMORNING becomes GOOD MORNING.
C19_ShortChunksWithoutPatternAreNeverSplit ==
  Returned("splitMergedWords") =>
    LET in == ChunksOf(arg)
    IN  /\ ChunksOf(result[1]) = Flatten([i \in DOMAIN in |-> ChunksOf(splitMergedWords(in[i]))])
        /\ \A i \in DOMAIN in :
             (Len(in[i]) <= 6 /\ ~ContainsPattern(in[i])) =>
               ChunksOf(splitMergedWords(in[i])) = <<in[i]>>
        /\ arg = "GOODMORNING" => ChunksOf(result[1]) = <<"GOOD", "MORNING">>
        /\ arg = "DONOT" => ChunksOf(result[1]) = <<"DO", "NOT">>

C19_Witness ==
  /\ Returned("splitMergedWords")
  /\ arg = "CANADA GOODMORNING"
  /\ result[1] = "CANADA GOOD MORNING"

\* --------------------------------------------------------------------- C20
\* the tokens of a sentence, lower-cased as the translation compares them
TokensOf(text) == ChunksOf(toLowerCase(text))

C22_TokensAreLowercaseAlphabeticOfLengthTwo ==
  Returned("processRecognizedText") =>
    \A i \in DOMAIN result[1].words :
      LET w == result[1].words[i]
      IN  /\ Len(w) >= 2
          /\ w = toLowerCase(w)
          /\ CharsOf(w) \subseteq CharsOf(Lower) \cup {"-"}

\* --------------------------------------------------------------------- C24
\* the parts from the k-th on, put together again
RECURSIVE Concat(_)
Concat(parts) == IF parts = <<>> THEN "" ELSE Head(parts) \o Concat(Tail(parts))

\* cutting `word` after its i-th character succeeds
SuccessfulCut(word, i) ==
  /\ i \in 3..(Len(word) - 3)
  /\ SubSeq(word, 1, i) \in commonWords
  /\ SubSeq(word, i + 1, Len(word)) \in commonWords \/ Len(word) - i >= 3

\* `parts` cuts `word` at the leftmost successful position, again and again
LeftmostCuts(word, parts) ==
  /\ parts # <<>>
  /\ Concat(parts) = word
  /\ \A k \in DOMAIN parts :
       LET rest == Concat(SubSeq(parts, k, Len(parts)))
       IN  IF k < Len(parts)
           THEN /\ SuccessfulCut(rest, Len(parts[k]))
                /\ \A j \in 1..(Len(parts[k]) - 1) : ~SuccessfulCut(rest, j)
           ELSE \A j \in 1..Len(rest) : ~SuccessfulCut(rest, j)

\* the parts that the output holds for the k-th chunk of the input, the
\* output being the parts of all chunks in order
RECURSIVE PartsOfChunks(_, _)
PartsOfChunks(chunks, out) ==
  IF chunks = <<>> THEN <<>>
  ELSE LET n == CHOOSE m \in 0..Len(out) :
                  /\ Concat(SubSeq(out, 1, m)) = Head(chunks)
                  /\ m > 0 \/ Head(chunks) = ""
       IN  <<SubSeq(out, 1, n)>> \o PartsOfChunks(Tail(chunks), SubSeq(out, n + 1, Len(out)))

\* C24: a chunk of more than 6 characters is cut at the first position
\* i = 3 .. length-3 whose left part is a common word and whose right part is a
\* common word or has at least 3 characters, the right part is cut again by the
\* same rule, and a chunk without a successful cut is returned unsplit.
C24_LeftmostSuccessfulCutWins ==
  Returned("intelligentWordSplit") =>
    LET chunks == ChunksOf(arg)
        parts  == PartsOfChunks(chunks, ChunksOf(result[1]))
    IN  /\ Flatten(parts) = ChunksOf(result[1])
        /\ \A k \in DOMAIN chunks :
             Len(chunks[k]) > 6 => LeftmostCuts(chunks[k], parts[k])
        /\ arg = "YOURNAME" => result[1] = "YOU RNAME"
        /\ arg = "UNDERSTAND" => result[1] = "UNDERSTAND"

C24_Witness ==
  /\ Returned("intelligentWordSplit")
  /\ arg = "YOURNAME WHOAREYOU"
  /\ result[1] = "YOU RNAME WHO ARE YOU"

\* --------------------------------------------------------------------- C23
\* C23: a playSequence call with glosses none of which has a clip leaves the
\* playable queue empty and reports neither a played nor a completed sequence: it
\* emits no onSequenceComplete, no "Sequence Complete" toast and no "Playing
\* ISL sequence" toast.
C23_EmptyQueueIsNotReportedComplete ==
  (lastStep = "playSequence" /\ playbackQueue = <<>> /\ missingWords # <<>>) =>
    /\ "onSequenceComplete" \notin Elements(emitted)
    /\ "toast:Sequence Complete" \notin Elements(emitted)
    /\ "toast:Playing ISL sequence" \notin Elements(emitted)

\* --------------------------------------------------------------------- C25
\* C25: the cursor is within the bounds of the queue in every reachable state:
\* 0 <= cursor <= length(queue), the cursor is 0 whenever the queue is empty,
\* and cursor <= length(queue) - 1 whenever a clip is being played.
C25_CursorWithinQueue ==
  /\ 0 <= currentVideoIndex /\ currentVideoIndex <= Len(playbackQueue)
  /\ playbackQueue = <<>> => currentVideoIndex = 0
  /\ (ClipActive /\ isSequencePlaying) => currentVideoIndex <= Len(playbackQueue) - 1

\* --------------------------------------------------------------------- C26
\* the clip of the first queued gloss has been started for the present queue
FirstClipStarted ==
  /\ playbackQueue # <<>>
  /\ currentVideoIndex = 0
  /\ video.status \in {"pending", "playing"}
  /\ video.origin = "current"
  /\ video.gloss = playbackQueue[1]

\* C26: after a playSequence call whose list has a gloss with a clip, the clip
\* of the first such gloss is eventually started, whatever state the
\* controller was in at the call.
C26_FirstClipIsEventuallyStarted ==
  (lastStep = "playSequence" /\ playbackQueue # <<>>) ~> FirstClipStarted

\* --------------------------------------------------------------------- C28
\* C28: while the controller is not playing no clip is started: a step that
\* starts a clip from a state that is not playing is a play command
\* (playSequence or the Play button), and a timer that fires while the
\* controller is not playing leaves the media as it is and the controller not
\* playing.
C28_NoClipStartsWhileNotPlaying ==
  /\ [][(~isSequencePlaying /\ ClipBegins) =>
          lastStep' \in {"playSequence", "handleManualPlay"}]_vars
  /\ [][\A t \in TimerIds :
          (~isSequencePlaying /\ TimerFires(t)) =>
            /\ ~ClipBegins
            /\ video' = video
            /\ ~isSequencePlaying']_vars

\* a timer scheduled before stopSequence() has fired after it, the cursor
\* pointing at a clip of the queue
C28_Witness ==
  /\ lastStep = "setTimeout"
  /\ ~isSequencePlaying
  /\ currentVideoIndex < Len(playbackQueue)
  /\ ~ClipActive

\* --------------------------------------------------------------------- C29
\* how many times the step into the state called onSequenceComplete
Completions(e) == Cardinality({i \in DOMAIN e : e[i] = "onSequenceComplete"})

PlayCommands == {"playSequence", "handleManualPlay"}

\* C29: onSequenceComplete is emitted at most once for each sequence that is
\* started, and never for a sequence that was stopped or reset: a step emits
\* it at most once and leaves the playing state; once the controller is not
\* playing only a play command makes it play or emit again; stopSequence,
\* reset, pause and the Reset button emit nothing; and an emission happens
\* with the cursor past the last clip of the queue.
C29_CompleteAtMostOncePerSequence ==
  /\ [][Completions(emitted') > 0 =>
          /\ Completions(emitted') = 1
          /\ ~isSequencePlaying'
          /\ currentVideoIndex' >= Len(playbackQueue')]_vars
  /\ [][(~isSequencePlaying /\ (isSequencePlaying' \/ Completions(emitted') > 0)) =>
          lastStep' \in PlayCommands]_vars
  /\ [][(StopSequence \/ Reset \/ HandlePause \/ HandleReset) =>
          Completions(emitted') = 0]_vars

\* the sequence was completed by a timer moving the cursor past the last clip
C29_Witness ==
  /\ lastStep = "setTimeout"
  /\ Completions(emitted) = 1
  /\ Len(playbackQueue) = 2 /\ currentVideoIndex = 2
  /\ ~isSequencePlaying

\* --------------------------------------------------------------------- C27
\* C27: every preloadVideo call eventually settles: the element it created
\* fires oncanplaythrough or onerror, and a call that waits on an in-flight
\* preload of the same locator stops polling.
C27_EveryPreloadCallSettles ==
  \A url \in Urls :
    /\ (preloadFetches[url] > 0) ~> (preloadFetches[url] = 0)
    /\ (url \in preloadWaiters) ~> (url \notin preloadWaiters)

C30_OvertakenInterimIsNotAppended ==
  [][(DebounceFires /\ debounce[1].overtaken # "no") => transcript' = transcript]_vars

====
